---- MODULE Spec2Model ----
(***************************************************************************)
(* GPUParallel (src/gpuparallel/gpuparallel.py): a multiprocessing.Pool of *)
(* n_gpu * n_workers_per_gpu workers, each of which takes one              *)
(* (worker_id, gpu_id) pair from gpu_queue in its initializer, runs        *)
(* init_fn, and then serves tasks submitted by __call__; results come back *)
(* on result_queue.  n_gpu = 0 is the synchronous debug mode.              *)
(*                                                                         *)
(* The main thread is one sequential process (main_pc, cur); every pool    *)
(* worker is a process of its own (wpc).  A task is an opaque callable:    *)
(* when it is run it either returns its value or raises.  The two          *)
(* branches of the progressbar test (lines 104-112) do the same            *)
(* result_queue.get() per expected result and are modelled once.           *)
(***************************************************************************)
EXTENDS Integers, Sequences, FiniteSets, TLC

\* ---- bounds of the model -------------------------------------------------
MaxGpu == 2
MaxWorkersPerGpu == 2
MaxPool == 2
MaxCalls == 2
MaxTasks == 2
MaxSyncTasks == 3
MaxSubmitted == 3
MaxExtra == 1

VARIABLES
  n_gpu, n_workers_per_gpu, init_fn, return_generator, ignore_errors,
  main_pc, cur, gpu_queue, pool_state, wpc, worker_id, gpu_id, pid, n_spawned,
  wtask, wraised, inqueue, result_queue, gens, init_calls, exec_log,
  n_pool_created, n_pool_closed, published, n_reraised

cfg == <<n_gpu, n_workers_per_gpu, init_fn, return_generator, ignore_errors>>
wvars == <<wpc, worker_id, gpu_id, pid, n_spawned, wtask, wraised>>
vars == <<n_gpu, n_workers_per_gpu, init_fn, return_generator, ignore_errors,
          main_pc, cur, gpu_queue, pool_state, wpc, worker_id, gpu_id, pid,
          n_spawned, wtask, wraised, inqueue, result_queue, gens, init_calls,
          exec_log, n_pool_created, n_pool_closed, published, n_reraised>>

\* ---- values ---------------------------------------------------------------
\* Python's None, as put on result_queue for a failed task.
None == <<>>
\* The worker globals before _init_worker has assigned them.
NoId == -1
NoTask == <<>>
\* The value task number i of call c returns when run with the given identity.
TaskValue(c, i, wid, gid) == <<c, i, wid, gid>>

debug_mode == n_gpu = 0
\* Pool(processes = n_gpu * n_workers_per_gpu)
Processes == n_gpu * n_workers_per_gpu
Workers == 1..Processes

\* every (worker_id, gpu_id) pair a pool within the bounds can hand out
AllIdents == (0..(MaxPool - 1)) \X (0..(MaxGpu - 1))

\* ---- __init__: filling gpu_queue -------------------------------------------
WorkerIdLocal(g, S, idx) == idx
\* worker_id = gpu_id * self.n_workers_per_gpu + idx
WorkerIdOf(g, S, idx) == g * S + idx

\* the nested loops over range(n_gpu), range(n_workers_per_gpu): the k-th put
\* is the pair of gpu (k-1) \div S and idx (k-1) % S
Identities(D, S) ==
  [k \in 1..(D * S) |->
     <<WorkerIdOf((k - 1) \div S, S, (k - 1) % S), (k - 1) \div S>>]

\* ---- Queue.get ---------------------------------------------------------------
QueuePeek(q) == [item |-> Head(q), rest |-> q]
\* gpu_queue.get() / result_queue.get(): removes and returns the oldest item
QueueGet(q) == [item |-> Head(q), rest |-> Tail(q)]

\* ---- generators --------------------------------------------------------------
\* One generator object made by _call_async or _call_sync.
\*   n        length of the task sequence given to __call__
\*   pc       "created" (not started), "active" (started), "done", "raised"
\*   pos      how many tasks the for loop over tasks has taken so far
\*   n_tasks  the local n_tasks of _call_async
\*   got      iterations of the collection loop completed
\*   out      items yielded so far, in order
\*   ran      _call_sync: the indices of the tasks invoked, in order
\*   n_raise  number of times the generator raised into its consumer
\*   extra    next() calls made after the generator had finished
\*   asked    next() calls the consumer of a returned generator has made
\*            before the generator finished
NewGen(n) == [n |-> n, pc |-> "created", pos |-> 0, n_tasks |-> 0, got |-> 0,
              out |-> <<>>, ran |-> <<>>, n_raise |-> 0, extra |-> 0,
              asked |-> 0]

Calls == 1..Len(gens)

\* the tasks of the calls: task number i of call c is <<c, i>>
TaskIds == (1..MaxCalls) \X (1..MaxTasks)

RECURSIVE SumN(_, _)
SumN(gs, k) == IF k = 0 THEN 0 ELSE gs[k].n + SumN(gs, k - 1)
\* the number of tasks given to __call__ so far, over all calls
TotalTasks == SumN(gens, Len(gens))

Init ==
  /\ n_gpu \in 0..MaxGpu
  /\ n_workers_per_gpu \in 1..MaxWorkersPerGpu
  /\ n_gpu * n_workers_per_gpu <= MaxPool
  /\ init_fn \in {"none", "given"}
  /\ return_generator \in BOOLEAN
  /\ ignore_errors \in BOOLEAN
  /\ main_pc = "new"
  /\ cur = 0
  /\ gpu_queue = <<>>
  /\ pool_state = "none"
  /\ wpc = <<>>
  /\ worker_id = <<>>
  /\ gpu_id = <<>>
  /\ pid = <<>>
  /\ n_spawned = 0
  /\ wtask = <<>>
  /\ wraised = <<>>
  /\ inqueue = <<>>
  /\ result_queue = <<>>
  /\ gens = <<>>
  /\ init_calls = [id \in AllIdents |-> 0]
  /\ exec_log = {}
  /\ n_pool_created = 0
  /\ n_pool_closed = 0
  /\ published = [t \in TaskIds |-> 0]
  /\ n_reraised = 0

\* ---- __init__ ---------------------------------------------------------------
\* init_fn is an opaque callable: a call of it returns or raises
InitOutcomes == IF init_fn = "given" THEN {"return", "raise"} ELSE {"return"}

\* lines 60-72: fill gpu_queue, start the pool, make result_queue.  Pool()
\* starts the worker processes and returns without waiting for their
\* initializers.
ConstructAsync ==
  /\ main_pc = "new"
  /\ ~debug_mode
  /\ gpu_queue' = Identities(n_gpu, n_workers_per_gpu)
  /\ pool_state' = "RUN"
  /\ n_pool_created' = n_pool_created + 1
  /\ wpc' = [w \in Workers |-> "start"]
  /\ worker_id' = [w \in Workers |-> NoId]
  /\ gpu_id' = [w \in Workers |-> NoId]
  /\ pid' = [w \in Workers |-> w]
  /\ n_spawned' = Processes
  /\ wtask' = [w \in Workers |-> NoTask]
  /\ wraised' = [w \in Workers |-> FALSE]
  /\ result_queue' = <<>>
  /\ main_pc' = "idle"
  /\ UNCHANGED <<cfg, cur, inqueue, gens, init_calls, exec_log, published, n_reraised, n_pool_closed>>

\* lines 73-76: debug mode runs init_fn(worker_id=0, gpu_id=0) in the caller
ConstructDebug ==
  /\ main_pc = "new"
  /\ debug_mode
  /\ \E outcome \in InitOutcomes :
       /\ init_calls' = IF init_fn = "none" THEN init_calls
                         ELSE [init_calls EXCEPT ![<<0, 0>>] = @ + 1]
       /\ main_pc' = IF init_fn # "none" /\ outcome = "raise"
                      THEN "ctor_raised" ELSE "idle"
  /\ UNCHANGED <<cfg, cur, gpu_queue, pool_state, wvars, inqueue, result_queue,
                 gens, exec_log, published, n_reraised, n_pool_created, n_pool_closed>>

\* ---- _init_worker (the pool's initializer, run by every worker process) ------
\* line 13: worker_id, gpu_id = gpu_queue.get()   (blocks while the queue is empty)
InitWorkerGet(w) ==
  /\ w \in DOMAIN wpc
  /\ wpc[w] = "start"
  /\ gpu_queue # <<>>
  /\ LET r == QueueGet(gpu_queue) IN
       /\ worker_id' = [worker_id EXCEPT ![w] = r.item[1]]
       /\ gpu_id' = [gpu_id EXCEPT ![w] = r.item[2]]
       /\ gpu_queue' = r.rest
  /\ wpc' = [wpc EXCEPT ![w] = "init"]
  /\ UNCHANGED <<cfg, main_pc, cur, pool_state, pid, n_spawned, wtask, wraised,
                 inqueue, result_queue, gens, init_calls, exec_log, published, n_reraised,
                 n_pool_created, n_pool_closed>>

\* lines 14-21: init_fn(worker_id, gpu_id) if given; an exception leaves the
\* initializer and ends the worker process
InitWorkerInitFn(w) ==
  /\ w \in DOMAIN wpc
  /\ wpc[w] = "init"
  /\ \E outcome \in InitOutcomes :
       /\ init_calls' = IF init_fn = "none" THEN init_calls
                         ELSE [init_calls EXCEPT ![<<worker_id[w], gpu_id[w]>>] = @ + 1]
       /\ wpc' = [wpc EXCEPT ![w] = IF init_fn # "none" /\ outcome = "raise"
                                      THEN "dead" ELSE "ready"]
  /\ UNCHANGED <<cfg, main_pc, cur, gpu_queue, pool_state, worker_id, gpu_id, pid,
                 n_spawned, wtask, wraised, inqueue, result_queue, gens,
                 exec_log, published, n_reraised, n_pool_created, n_pool_closed>>

\* tasks submitted and not yet completed (the pool's cache of AsyncResults)
PendingTasks == Len(inqueue) + Cardinality({w \in DOMAIN wpc : wpc[w] \in {"run", "put"}})

\* line 69: the Pool keeps `processes` workers: while it is running (or has
\* pending tasks) it replaces a worker process that has exited by a new one,
\* which runs the initializer again
Repopulate(w) ==
  /\ w \in DOMAIN wpc
  /\ wpc[w] = "dead"
  /\ pool_state = "RUN" \/ PendingTasks > 0
  /\ wpc' = [wpc EXCEPT ![w] = "start"]
  /\ worker_id' = [worker_id EXCEPT ![w] = NoId]
  /\ gpu_id' = [gpu_id EXCEPT ![w] = NoId]
  /\ n_spawned' = n_spawned + 1
  /\ pid' = [pid EXCEPT ![w] = n_spawned + 1]
  /\ UNCHANGED <<cfg, main_pc, cur, gpu_queue, pool_state, wtask, wraised, inqueue,
                 result_queue, gens, init_calls, exec_log, published, n_reraised, n_pool_created,
                 n_pool_closed>>

\* ---- _run_task (run by a pool worker for every submitted task) ---------------
ServesBeforeInit(pcv) == pcv \in {"init", "ready"}
ServesWhileBusy(pcv) == pcv \in {"ready", "run"}
\* line 69: the worker process runs initializer (_init_worker) to its end
\* before it enters the loop that takes tasks
ServesTasks(pcv) == pcv = "ready"

\* the pool worker's loop takes the oldest task of the pool's task queue
TakeTask(w) ==
  /\ w \in DOMAIN wpc
  /\ ServesTasks(wpc[w])
  /\ inqueue # <<>>
  /\ wtask' = [wtask EXCEPT ![w] = Head(inqueue)]
  /\ inqueue' = Tail(inqueue)
  /\ wpc' = [wpc EXCEPT ![w] = "run"]
  /\ UNCHANGED <<cfg, main_pc, cur, gpu_queue, pool_state, worker_id, gpu_id, pid,
                 n_spawned, wraised, result_queue, gens, init_calls, exec_log, published, n_reraised,
                 n_pool_created, n_pool_closed>>

RunTaskArgsDebug(w) == <<0, 0>>
\* line 28: func(worker_id=worker_id, gpu_id=gpu_id), the worker's globals
RunTaskArgs(w) == <<worker_id[w], gpu_id[w]>>

PutInFinally(outcome, v, ie) ==
  IF outcome = "return" THEN <<v, None>> ELSE <<None>>
RaiseBeforePut(outcome, v, ie) ==
  IF outcome = "return" THEN <<v>> ELSE IF ie THEN <<None>> ELSE <<>>
\* lines 29 and 32: what _run_task puts on result_queue before it returns or
\* re-raises: the result of the task, or None in the except branch, whatever
\* ignore_errors is
PutItems(outcome, v, ie) == IF outcome = "return" THEN <<v>> ELSE <<None>>

\* lines 27-32: run the task; put its result, or None if it raised
RunTaskFunc(w) ==
  /\ w \in DOMAIN wpc
  /\ wpc[w] = "run"
  /\ LET a == RunTaskArgs(w) IN
     \E outcome \in {"return", "raise"} :
       LET items == PutItems(outcome,
                             TaskValue(wtask[w][1], wtask[w][2], a[1], a[2]),
                             ignore_errors)
       IN /\ result_queue' = result_queue \o items
          /\ published' = [published EXCEPT ![wtask[w]] = @ + Len(items)]
          /\ wraised' = [wraised EXCEPT ![w] = (outcome = "raise")]
          /\ exec_log' = exec_log \cup {<<w, a>>}
  /\ wpc' = [wpc EXCEPT ![w] = "put"]
  /\ UNCHANGED <<cfg, main_pc, cur, gpu_queue, pool_state, worker_id, gpu_id, pid,
                 n_spawned, wtask, inqueue, gens, init_calls, n_pool_created,
                 n_pool_closed, n_reraised>>

WorkerDiesOnRaise(raised, ie) == IF raised /\ ~ie THEN "dead" ELSE "ready"
\* lines 33-34: `raise` if not ignore_errors.  The exception leaves _run_task
\* and is caught by the pool worker's loop (it goes into the AsyncResult that
\* _call_async drops); the worker goes on to its next task.
AfterRunTask(raised, ie) == "ready"

RunTaskEnd(w) ==
  /\ w \in DOMAIN wpc
  /\ wpc[w] = "put"
  /\ wpc' = [wpc EXCEPT ![w] = AfterRunTask(wraised[w], ignore_errors)]
  /\ n_reraised' = IF wraised[w] /\ ~ignore_errors THEN n_reraised + 1
                    ELSE n_reraised
  /\ wtask' = [wtask EXCEPT ![w] = NoTask]
  /\ wraised' = [wraised EXCEPT ![w] = FALSE]
  /\ UNCHANGED <<cfg, main_pc, cur, gpu_queue, pool_state, worker_id, gpu_id, pid,
                 n_spawned, inqueue, result_queue, gens, init_calls, exec_log,
                 published, n_pool_created, n_pool_closed>>

\* line 84: after pool.close() the pool sends its workers the sentinel once
\* no submitted task is pending any more; a worker that gets it exits
WorkerExit(w) ==
  /\ w \in DOMAIN wpc
  /\ wpc[w] = "ready"
  /\ pool_state = "CLOSE"
  /\ PendingTasks = 0
  /\ wpc' = [wpc EXCEPT ![w] = "exit"]
  /\ UNCHANGED <<cfg, main_pc, cur, gpu_queue, pool_state, worker_id, gpu_id, pid,
                 n_spawned, wtask, wraised, inqueue, result_queue, gens,
                 init_calls, exec_log, published, n_reraised, n_pool_created, n_pool_closed>>

\* ---- __call__ and the generators ----------------------------------------------
\* where the main thread is after a generator has yielded or finished: with
\* return_generator the consumer has the control again, otherwise the list
\* comprehension of line 127 asks for the next item at once
Yielded(c) == IF return_generator THEN <<"idle", 0>> ELSE <<"next", c>>

CallDrains(c) == <<"next", c>>
\* line 127: `return generator if self.return_generator else [...]`: with
\* return_generator the generator is handed back untouched
CallThen(c) == IF return_generator THEN <<"idle", 0>> ELSE <<"next", c>>

\* lines 126-127: make the generator; return it, or start draining it
Call(n) ==
  /\ main_pc = "idle"
  /\ Len(gens) < MaxCalls
  /\ IF debug_mode THEN n <= MaxSyncTasks
     ELSE n <= MaxTasks /\ TotalTasks + n <= MaxSubmitted
  /\ gens' = Append(gens, NewGen(n))
  /\ main_pc' = CallThen(Len(gens) + 1)[1]
  /\ cur' = CallThen(Len(gens) + 1)[2]
  /\ UNCHANGED <<cfg, gpu_queue, pool_state, wvars, inqueue, result_queue,
                 init_calls, exec_log, published, n_reraised, n_pool_created, n_pool_closed>>

\* the consumer of a returned generator asks it for its next item
Consume(c) ==
  /\ main_pc = "idle"
  /\ return_generator
  /\ c \in Calls
  /\ gens[c].pc \in {"created", "active"}
  /\ main_pc' = "next"
  /\ cur' = c
  /\ gens' = [gens EXCEPT ![c].asked = @ + 1]
  /\ UNCHANGED <<cfg, gpu_queue, pool_state, wvars, inqueue, result_queue,
                 init_calls, exec_log, published, n_reraised, n_pool_created, n_pool_closed>>

ResumeRestarts(g) == [NewGen(g.n) EXCEPT !.extra = g.extra + 1]
\* a generator that has returned or raised stays finished: next() on it
\* raises StopIteration and runs none of its code
ResumeFinished(g) == [g EXCEPT !.extra = @ + 1]

ConsumeFinished(c) ==
  /\ main_pc = "idle"
  /\ return_generator
  /\ c \in Calls
  /\ gens[c].pc \in {"done", "raised"}
  /\ gens[c].extra < MaxExtra
  /\ gens' = [gens EXCEPT ![c] = ResumeFinished(@)]
  /\ UNCHANGED <<cfg, main_pc, cur, gpu_queue, pool_state, wvars, inqueue,
                 result_queue, init_calls, exec_log, published, n_reraised, n_pool_created,
                 n_pool_closed>>

CountOnce(n_tasks) == 1
\* line 101: n_tasks += 1
CountSubmitted(n_tasks) == n_tasks + 1

\* lines 99-101: one turn of the submission loop of _call_async
GenSubmit(c) ==
  /\ main_pc = "next" /\ cur = c
  /\ ~debug_mode
  /\ gens[c].pc \in {"created", "active"}
  /\ gens[c].pos < gens[c].n
  /\ pool_state = "RUN"
  /\ inqueue' = Append(inqueue, <<c, gens[c].pos + 1>>)
  /\ gens' = [gens EXCEPT ![c].pc = "active", ![c].pos = @ + 1,
                          ![c].n_tasks = CountSubmitted(@)]
  /\ UNCHANGED <<cfg, main_pc, cur, gpu_queue, pool_state, wvars, result_queue,
                 init_calls, exec_log, published, n_reraised, n_pool_created, n_pool_closed>>

CollectsWhileSubmitting(g) == g.n_tasks > 0 \/ g.pos = g.n
\* lines 99-102: the collection loops come after the for loop over tasks has
\* ended
SubmissionOver(g) == g.pos = g.n

\* lines 107-108 / 111-112: one turn of the collection loop of _call_async:
\* yield self.result_queue.get()
GenGet(c) ==
  /\ main_pc = "next" /\ cur = c
  /\ ~debug_mode
  /\ gens[c].pc \in {"created", "active"}
  /\ SubmissionOver(gens[c])
  /\ gens[c].got < gens[c].n_tasks
  /\ result_queue # <<>>
  /\ LET r == QueueGet(result_queue) IN
       /\ result_queue' = r.rest
       /\ gens' = [gens EXCEPT ![c].pc = "active", ![c].got = @ + 1,
                               ![c].out = Append(@, r.item)]
  /\ main_pc' = Yielded(c)[1]
  /\ cur' = Yielded(c)[2]
  /\ UNCHANGED <<cfg, gpu_queue, pool_state, wvars, inqueue, init_calls,
                 exec_log, published, n_reraised, n_pool_created, n_pool_closed>>

SyncArgsOne == <<1, 0>>
\* line 95: task(worker_id=0, gpu_id=0)
SyncArgs == <<0, 0>>

SyncLastFirst(g) == g.n - g.pos
\* line 94: for task in tasks, over the list made in line 90
SyncNextTask(g) == g.pos + 1

SyncRaiseUnlessIgnored(ie) == ~ie
\* line 95 has no try: an exception of the task leaves the generator,
\* whatever ignore_errors is
SyncRaises(ie) == TRUE

\* lines 94-95: one turn of the loop of _call_sync
GenSyncRun(c) ==
  /\ main_pc = "next" /\ cur = c
  /\ debug_mode
  /\ gens[c].pc \in {"created", "active"}
  /\ gens[c].pos < gens[c].n
  /\ LET i == SyncNextTask(gens[c]) IN
     \E outcome \in {"return", "raise"} :
       IF outcome = "raise" /\ SyncRaises(ignore_errors)
       THEN /\ gens' = [gens EXCEPT ![c].pc = "raised", ![c].pos = @ + 1,
                                    ![c].ran = Append(@, i),
                                    ![c].n_raise = @ + 1]
            /\ main_pc' = "idle"
            /\ cur' = 0
       ELSE /\ gens' = [gens EXCEPT ![c].pc = "active", ![c].pos = @ + 1,
                                    ![c].ran = Append(@, i),
                                    ![c].out =
                                      Append(@, IF outcome = "raise" THEN None
                                                ELSE TaskValue(c, i, SyncArgs[1],
                                                               SyncArgs[2]))]
            /\ main_pc' = Yielded(c)[1]
            /\ cur' = Yielded(c)[2]
  /\ UNCHANGED <<cfg, gpu_queue, pool_state, wvars, inqueue, result_queue,
                 init_calls, exec_log, published, n_reraised, n_pool_created, n_pool_closed>>

ClosesPool(ps) == IF ps = "RUN" THEN "CLOSE" ELSE ps
\* line 114: after the last result _call_async only logs; the pool is left as
\* it is
AfterAllReceived(ps) == ps

\* the end of either generator (after line 95, after line 114): StopIteration
GenStop(c) ==
  /\ main_pc = "next" /\ cur = c
  /\ gens[c].pc \in {"created", "active"}
  /\ gens[c].pos = gens[c].n
  /\ gens[c].got = gens[c].n_tasks
  /\ gens' = [gens EXCEPT ![c].pc = "done"]
  /\ pool_state' = AfterAllReceived(pool_state)
  /\ main_pc' = "idle"
  /\ cur' = 0
  /\ UNCHANGED <<cfg, gpu_queue, wvars, inqueue, result_queue, init_calls,
                 exec_log, published, n_reraised, n_pool_created, n_pool_closed>>

\* ---- __del__ --------------------------------------------------------------------
\* lines 83-84: pool.close() (nothing in debug mode)
Dispose ==
  /\ main_pc = "idle"
  /\ IF debug_mode
     THEN /\ main_pc' = "disposed"
          /\ UNCHANGED <<pool_state, n_pool_closed>>
     ELSE /\ main_pc' = "join"
          /\ pool_state' = "CLOSE"
          /\ n_pool_closed' = n_pool_closed + 1
  /\ UNCHANGED <<cfg, cur, gpu_queue, wvars, inqueue, result_queue, gens,
                 init_calls, exec_log, published, n_reraised, n_pool_created>>

JoinSkipped == TRUE
\* line 85: pool.join() returns when no submitted task is pending any more
\* and every worker process has ended
JoinMayReturn ==
  /\ PendingTasks = 0
  /\ \A w \in DOMAIN wpc : wpc[w] \in {"exit", "dead"}

DisposeJoin ==
  /\ main_pc = "join"
  /\ JoinMayReturn
  /\ main_pc' = "disposed"
  /\ UNCHANGED <<cfg, cur, gpu_queue, pool_state, wvars, inqueue, result_queue,
                 gens, init_calls, exec_log, published, n_reraised, n_pool_created, n_pool_closed>>

Next ==
  \/ ConstructAsync
  \/ ConstructDebug
  \/ \E w \in 1..MaxPool : InitWorkerGet(w)
  \/ \E w \in 1..MaxPool : InitWorkerInitFn(w)
  \/ \E w \in 1..MaxPool : Repopulate(w)
  \/ \E w \in 1..MaxPool : TakeTask(w)
  \/ \E w \in 1..MaxPool : RunTaskFunc(w)
  \/ \E w \in 1..MaxPool : RunTaskEnd(w)
  \/ \E w \in 1..MaxPool : WorkerExit(w)
  \/ \E n \in 0..(MaxTasks + MaxSyncTasks) : Call(n)
  \/ \E c \in 1..MaxCalls : Consume(c)
  \/ \E c \in 1..MaxCalls : ConsumeFinished(c)
  \/ \E c \in 1..MaxCalls : GenSubmit(c)
  \/ \E c \in 1..MaxCalls : GenGet(c)
  \/ \E c \in 1..MaxCalls : GenSyncRun(c)
  \/ \E c \in 1..MaxCalls : GenStop(c)
  \/ Dispose
  \/ DisposeJoin

Spec == Init /\ [][Next]_vars

\* ---- debug mode alone ---------------------------------------------------------
\* With n_gpu = 0 there is no pool, no worker and no queue: the steps left are
\* those of the main thread (no other step of Next is enabled in debug mode).
InitDebug == Init /\ n_gpu = 0

NextDebug ==
  \/ ConstructDebug
  \/ \E n \in 0..(MaxTasks + MaxSyncTasks) : Call(n)
  \/ \E c \in 1..MaxCalls : Consume(c)
  \/ \E c \in 1..MaxCalls : ConsumeFinished(c)
  \/ \E c \in 1..MaxCalls : GenSyncRun(c)
  \/ \E c \in 1..MaxCalls : GenStop(c)
  \/ Dispose

SpecDebug == InitDebug /\ [][NextDebug]_vars

\* ---- the checked properties ------------------------------------------------------
\* the identity set of the data model: {(s, d) : d in [0,D), local in [0,S),
\* s = d*S + local}
IdentitySet ==
  {<<d * n_workers_per_gpu + l, d>> :
     d \in 0..(n_gpu - 1), l \in 0..(n_workers_per_gpu - 1)}

\* the identity a worker process holds in its globals
Claimed(w) == <<worker_id[w], gpu_id[w]>>
HasClaimed(w) == worker_id[w] # NoId

\* every worker process of the pool has finished _init_worker
AllStarted ==
  /\ ~debug_mode
  /\ main_pc # "new"
  /\ \A w \in Workers : wpc[w] \in {"ready", "run", "put", "exit"}

\* the number of init_fn invocations so far
RECURSIVE SumCalls(_)
SumCalls(ids) ==
  IF ids = {} THEN 0
  ELSE LET id == CHOOSE x \in ids : TRUE
       IN init_calls[id] + SumCalls(ids \ {id})
InitTotal == SumCalls(AllIdents)

Finished(c) == gens[c].pc \in {"done", "raised"}

\* C1: no two worker processes ever hold the same identity, every identity
\* held is one of the D*S identities, and once every worker has started the
\* identities held are exactly the D*S identities, each held by one worker.
C1_IdentityCompleteness ==
  ~debug_mode /\ main_pc # "new" =>
    /\ Cardinality(IdentitySet) = n_gpu * n_workers_per_gpu
    /\ \A w \in Workers : HasClaimed(w) => Claimed(w) \in IdentitySet
    /\ \A w1, w2 \in Workers :
         HasClaimed(w1) /\ HasClaimed(w2) /\ w1 # w2 => Claimed(w1) # Claimed(w2)
    /\ AllStarted =>
         /\ {Claimed(w) : w \in Workers} = IdentitySet
         /\ gpu_queue = <<>>

C1_Witness ==
  /\ AllStarted
  /\ n_gpu = 2
  /\ \E w \in Workers : Claimed(w) = <<1, 1>>

Values(c) == {gens[c].out[k] : k \in 1..Len(gens[c].out)} \ {None}

\* C3: every task a pool worker has run was run with the identity that worker
\* took from gpu_queue, which is one of the D*S identities; the worker's
\* identity is the same for all the tasks it runs, in every call.
C3_TaskIdentity ==
  ~debug_mode =>
    /\ \A e \in exec_log :
         /\ e[2] = Claimed(e[1])
         /\ e[2] \in IdentitySet
    /\ \A e1, e2 \in exec_log : e1[1] = e2[1] => e1[2] = e2[2]
    /\ \A c \in Calls : \A v \in Values(c) : <<v[3], v[4]>> \in IdentitySet

C3_Witness ==
  /\ ~debug_mode
  /\ n_gpu * n_workers_per_gpu = 2
  /\ Len(gens) = 2
  /\ gens[1].pc = "done" /\ gens[2].pc = "done"
  /\ Cardinality(Values(1) \cup Values(2)) = 3
  /\ \E v \in Values(2) : <<v[3], v[4]>> # <<0, 0>>

DebugStepsOnly == [][debug_mode => NextDebug]_vars

\* C5: in debug mode the tasks are invoked in submission order, one per item,
\* each with identity (0, 0); a call whose tasks all succeed returns
\* [t1(0,0), ..., tn(0,0)].
C5_DebugDeterminism ==
  debug_mode =>
    \A c \in Calls :
      /\ gens[c].ran = [i \in 1..gens[c].pos |-> i]
      /\ gens[c].out =
           [i \in 1..Len(gens[c].out) |-> TaskValue(c, i, 0, 0)]
      /\ gens[c].pc = "done" =>
           /\ gens[c].out = [i \in 1..gens[c].n |-> TaskValue(c, i, 0, 0)]
           /\ gens[c].ran = [i \in 1..gens[c].n |-> i]

C5_Witness ==
  \E c \in Calls :
    /\ debug_mode
    /\ gens[c].pc = "done"
    /\ gens[c].n = 3
    /\ gens[c].out = <<TaskValue(c, 1, 0, 0), TaskValue(c, 2, 0, 0),
                       TaskValue(c, 3, 0, 0)>>

\* the worker processes that are alive
Live == {w \in DOMAIN wpc : wpc[w] \notin {"dead", "exit"}}

\* C6: the step in which a worker leaves _run_task after its task has raised,
\* with ignore_errors true or false, leaves that worker the same process with
\* the same identity, ready for its next task, and leaves the set of live
\* workers as it was; a worker holding a task is never a dead one.
C6_FailureKeepsWorker ==
  [][\A w \in DOMAIN wpc :
       wpc[w] = "put" /\ wraised[w] /\ wpc'[w] # "put" =>
         /\ wpc'[w] = "ready"
         /\ pid'[w] = pid[w]
         /\ worker_id'[w] = worker_id[w] /\ gpu_id'[w] = gpu_id[w]
         /\ HasClaimed(w)
         /\ Live' = Live]_vars

\* a single worker whose task of the first call failed, and was re-raised,
\* has run a task of the second call
C6_Witness ==
  /\ ~debug_mode /\ ~ignore_errors
  /\ n_gpu * n_workers_per_gpu = 1
  /\ Len(gens) = 2
  /\ gens[1].pc = "done" /\ gens[1].out = <<None>>
  /\ gens[2].pc = "done" /\ Values(2) # {}
  /\ wpc[1] = "ready" /\ pid[1] = 1

\* an init_fn has raised in a worker process of the pool
InitFailed == \E w \in DOMAIN wpc : wpc[w] = "dead" \/ pid[w] > n_gpu * n_workers_per_gpu

\* C7: if init_fn raises in a worker, the constructor raises and no worker
\* process is left running or blocked.
C7_InitFailureFailsConstruction ==
  ~debug_mode /\ InitFailed =>
    /\ main_pc = "ctor_raised"
    /\ \A w \in DOMAIN wpc : wpc[w] \in {"dead", "exit"}

\* C8: in debug mode a failing task k ends the generator by raising, once,
\* with ignore_errors true or false: tasks 1..k were invoked in order and
\* none after, the k-1 earlier results are all that was delivered, and no
\* failure is ever turned into a None item.
C8_DebugFailure ==
  debug_mode =>
    \A c \in Calls :
      /\ None \notin {gens[c].out[k] : k \in 1..Len(gens[c].out)}
      /\ gens[c].n_raise = (IF gens[c].pc = "raised" THEN 1 ELSE 0)
      /\ gens[c].pc = "raised" =>
           /\ gens[c].pos \in 1..gens[c].n
           /\ gens[c].ran = [i \in 1..gens[c].pos |-> i]
           /\ gens[c].out =
                [i \in 1..(gens[c].pos - 1) |-> TaskValue(c, i, 0, 0)]
           /\ main_pc = "next" => cur # c

C8_Witness ==
  \E c \in Calls :
    /\ debug_mode /\ ignore_errors
    /\ gens[c].pc = "raised"
    /\ gens[c].n = 3 /\ gens[c].pos = 2
    /\ main_pc = "idle"

\* C9: a generator that has been asked for an item after it finished is
\* still finished: it has yielded nothing more (n items if it ended
\* normally), has taken no task again and has submitted no task again.
C9_LazySinglePass ==
  \A c \in Calls :
    gens[c].extra > 0 =>
      /\ return_generator
      /\ Finished(c)
      /\ gens[c].pos <= gens[c].n
      /\ gens[c].n_tasks = (IF debug_mode THEN 0 ELSE gens[c].pos)
      /\ Len(gens[c].ran) = (IF debug_mode THEN gens[c].pos ELSE 0)
      /\ gens[c].pc = "done" =>
           gens[c].pos = gens[c].n /\ Len(gens[c].out) = gens[c].n
      /\ main_pc = "next" => cur # c

C9_Witness ==
  \E c \in Calls :
    /\ ~debug_mode
    /\ gens[c].pc = "done"
    /\ gens[c].n = 2 /\ Len(gens[c].out) = 2
    /\ gens[c].extra = 1

Submitted(t) == ~debug_mode /\ t[1] \in Calls /\ t[2] <= gens[t[1]].pos
\* task t waits in the pool's task queue
Queued(t) == \E k \in 1..Len(inqueue) : inqueue[k] = t
\* the workers inside func(...) of task t
Running(t) == {w \in DOMAIN wpc : wpc[w] = "run" /\ wtask[w] = t}

RECURSIVE SumPublished(_)
SumPublished(ts) ==
  IF ts = {} THEN 0
  ELSE LET t == CHOOSE x \in ts : TRUE
       IN published[t] + SumPublished(ts \ {t})

RECURSIVE SumOut(_)
SumOut(k) == IF k = 0 THEN 0 ELSE Len(gens[k].out) + SumOut(k - 1)

\* C11: a task puts nothing on result_queue before or while its function
\* runs, and exactly one item in the step in which its function ends: its
\* value if it returned, None if it raised, with ignore_errors true or false;
\* it never puts a second item, and the items put are all the items there are.
C11_OneSlotPerTask ==
  /\ [](\A t \in TaskIds :
          /\ published[t] <= 1
          /\ published[t] = 1 <=>
               Submitted(t) /\ ~Queued(t) /\ Running(t) = {})
  /\ [](~debug_mode =>
          Len(result_queue) + SumOut(Len(gens)) = SumPublished(TaskIds))
  /\ [][\A w \in DOMAIN wpc :
          wpc[w] = "run" /\ wpc'[w] # "run" =>
            /\ published[wtask[w]] = 0 /\ published'[wtask[w]] = 1
            /\ Len(result_queue') = Len(result_queue) + 1
            /\ result_queue'[Len(result_queue')] =
                 (IF wraised'[w] THEN None
                  ELSE TaskValue(wtask[w][1], wtask[w][2],
                                 worker_id[w], gpu_id[w]))]_vars

C11_Witness ==
  /\ ~debug_mode /\ ~ignore_errors
  /\ Len(gens) >= 1
  /\ gens[1].pc = "done" /\ gens[1].n = 2
  /\ None \in {gens[1].out[k] : k \in 1..2}
  /\ Values(1) # {}
  /\ published[<<1, 1>>] = 1 /\ published[<<1, 2>>] = 1
  /\ n_reraised = 1

\* the number of None items of a sequence of results
NoneCount(q) == Cardinality({k \in 1..Len(q) : q[k] = None})

RECURSIVE SumNoneOut(_)
SumNoneOut(k) == IF k = 0 THEN 0 ELSE NoneCount(gens[k].out) + SumNoneOut(k - 1)

\* the workers that have put None for a failed task and are about to re-raise
AboutToReraise == {w \in DOMAIN wpc : wpc[w] = "put" /\ wraised[w]}

\* C12: without ignore_errors, a worker re-raises the failure of a task only
\* after it has put the None of that task on result_queue: at the step that
\* re-raises, the one item of the task is already published and the step puts
\* nothing; every re-raise done or about to be done has its None on the queue
\* or with a call, so a call that ends has received as many items as it
\* submitted tasks.  With ignore_errors nothing is re-raised.
C12_PublishBeforeReraise ==
  /\ [][n_reraised' # n_reraised =>
          /\ n_reraised' = n_reraised + 1
          /\ ~ignore_errors
          /\ result_queue' = result_queue
          /\ \E w \in AboutToReraise :
               /\ published[wtask[w]] = 1
               /\ wpc'[w] # "put"]_vars
  /\ [](~debug_mode /\ main_pc # "new" =>
          /\ ignore_errors => n_reraised = 0
          /\ ~ignore_errors =>
               n_reraised + Cardinality(AboutToReraise)
                 = NoneCount(result_queue) + SumNoneOut(Len(gens))
          /\ \A c \in Calls :
               gens[c].pc = "done" => Len(gens[c].out) = gens[c].n_tasks)

C12_Witness ==
  /\ ~debug_mode /\ ~ignore_errors
  /\ n_reraised = 2
  /\ Len(gens) >= 1
  /\ gens[1].pc = "done" /\ gens[1].n = 2
  /\ gens[1].out = <<None, None>>

\* the main thread is inside next() of an async generator
InAsyncNext(c) ==
  /\ ~debug_mode
  /\ main_pc = "next" /\ cur = c
  /\ gens[c].pc \in {"created", "active"}

\* the number of times task t is in the pool with its function not yet ended:
\* in the task queue or being run by a worker
InPool(t) ==
  Cardinality({k \in 1..Len(inqueue) : inqueue[k] = t})
    + Cardinality(Running(t))

\* C13: in an async call the tasks are submitted in order, each once (pos
\* counts the tasks taken from the sequence, n_tasks those submitted); a
\* call that has received a result has submitted all its tasks; a turn of the
\* submission loop is always possible, whatever the workers do and whatever
\* has been completed (it never waits); the main thread inside the call can
\* only be waiting when all is submitted, results are still expected and
\* result_queue is empty.
C13_SubmitAllThenCollect ==
  /\ [](\A c \in Calls : ~debug_mode =>
          /\ gens[c].pos <= gens[c].n
          /\ gens[c].n_tasks = gens[c].pos
          /\ gens[c].got <= gens[c].n_tasks
          /\ Len(gens[c].out) = gens[c].got
          /\ gens[c].got > 0 => gens[c].pos = gens[c].n
          /\ gens[c].pc = "done" => gens[c].pos = gens[c].n
          /\ \A i \in 1..MaxTasks :
               /\ InPool(<<c, i>>) + published[<<c, i>>]
                    = (IF i <= gens[c].pos THEN 1 ELSE 0)
          /\ InAsyncNext(c) /\ gens[c].pos < gens[c].n => ENABLED GenSubmit(c)
          /\ InAsyncNext(c)
               /\ ~ENABLED (GenSubmit(c) \/ GenGet(c) \/ GenStop(c)) =>
                    /\ gens[c].pos = gens[c].n
                    /\ gens[c].got < gens[c].n_tasks
                    /\ result_queue = <<>>)
  /\ [][\A c \in Calls : ~debug_mode =>
          /\ gens'[c].pos \in {gens[c].pos, gens[c].pos + 1}
          /\ gens'[c].pos = gens[c].pos + 1 =>
               /\ inqueue' = Append(inqueue, <<c, gens'[c].pos>>)
               /\ UNCHANGED <<wvars, result_queue, main_pc, cur>>
          /\ gens'[c].got # gens[c].got =>
               gens[c].pos = gens[c].n /\ gens'[c].pos = gens[c].n]_vars

C13_Witness ==
  /\ ~debug_mode
  /\ Len(gens) = 1
  /\ gens[1].n = 2 /\ gens[1].pos = 2 /\ gens[1].got = 1
  /\ Queued(<<1, 2>>)
  /\ \E w \in DOMAIN wpc : wpc[w] = "start"

\* worker process w is inside _run_task
Executing(w) == wpc[w] \in {"run", "put"}

\* C14: a worker process that takes or runs a task has taken an identity
\* from gpu_queue and has left _init_worker: with an init_fn, init_fn has been
\* called for that identity and has returned in this process; a process that
\* is starting up or whose init_fn raised holds no task.
C14_InitBeforeTasks ==
  /\ [](~debug_mode /\ main_pc # "new" =>
          \A w \in Workers :
            /\ Executing(w) =>
                 /\ HasClaimed(w)
                 /\ Claimed(w) \in IdentitySet
                 /\ init_fn # "none" => init_calls[Claimed(w)] = 1
            /\ wpc[w] \in {"start", "init", "dead"} => wtask[w] = NoTask)
  /\ [][\A w \in DOMAIN wpc :
          wpc'[w] = "run" /\ wpc[w] # "run" =>
            /\ wpc[w] = "ready"
            /\ HasClaimed(w)
            /\ UNCHANGED <<worker_id[w], gpu_id[w], pid[w]>>]_vars
  /\ [][\A w \in DOMAIN wpc :
          wpc'[w] = "ready" /\ wpc[w] \notin {"ready", "put"} =>
            /\ wpc[w] = "init"
            /\ init_fn # "none" =>
                 init_calls'[Claimed(w)] = init_calls[Claimed(w)] + 1]_vars

C14_Witness ==
  /\ ~debug_mode /\ init_fn # "none"
  /\ Len(wpc) = 2
  /\ wpc[1] = "init" /\ wpc[2] = "run"
  /\ Len(inqueue) = 1

\* the main thread is inside an eager async call (the list comprehension of
\* line 127 is draining the generator)
InEagerCall ==
  /\ ~debug_mode /\ ~return_generator
  /\ main_pc = "next"

\* C15: an eager async call never comes to a state in which it has not
\* returned and no step of any process is possible (from such a state the
\* call does not return, however the workers are scheduled).
C15_EagerCallReturns == InEagerCall => ENABLED Next

\* C16: __del__ of an async instance closes the pool (once, before it waits)
\* and returns only when every task submitted has been run to its end (its
\* item is published, none is queued or with a worker) and every worker
\* process has ended; a closed pool takes no new task; in debug mode
\* __del__ closes nothing and there is no pool.
C16_DisposalWaits ==
  /\ [](main_pc = "disposed" /\ ~debug_mode =>
          /\ pool_state = "CLOSE" /\ n_pool_closed = 1
          /\ inqueue = <<>>
          /\ \A w \in DOMAIN wpc : wpc[w] \in {"exit", "dead"}
          /\ \A t \in TaskIds : Submitted(t) => published[t] = 1)
  /\ [](main_pc = "join" => pool_state = "CLOSE" /\ n_pool_closed = 1)
  /\ [](debug_mode =>
          pool_state = "none" /\ n_pool_closed = 0 /\ n_pool_created = 0)
  /\ [][main_pc' = "disposed" /\ main_pc # "disposed" =>
          IF debug_mode THEN main_pc = "idle" /\ UNCHANGED pool_state
          ELSE main_pc = "join" /\ UNCHANGED <<pool_state, wvars, inqueue>>]_vars
  /\ [][pool_state = "CLOSE" => inqueue' = inqueue \/ inqueue' = Tail(inqueue)]_vars

C16_Witness ==
  /\ ~debug_mode /\ return_generator
  /\ main_pc = "disposed"
  /\ Len(gens) = 2
  /\ gens[1].n = 2 /\ gens[1].pos = 2 /\ gens[1].got = 1
  /\ gens[2].n = 1 /\ gens[2].asked = 0
  /\ published[<<1, 1>>] = 1 /\ published[<<1, 2>>] = 1
  /\ Len(result_queue) = 1

\* C17: every value a call has returned was put on result_queue by a task
\* submitted in that call.
C17_ResultsOfOwnCall ==
  ~debug_mode => \A c \in Calls : \A v \in Values(c) : v[1] = c

\* the worker processes that are inside _run_task
ExecutingWorkers == {w \in DOMAIN wpc : Executing(w)}

\* C18: a worker process holds at most one task, and takes one only when it
\* holds none; the processes running tasks are at most D*S, hold different
\* tasks and different identities, whatever number of tasks waits in the
\* pool.
C18_OneTaskPerWorker ==
  /\ [](~debug_mode /\ main_pc # "new" =>
          /\ Cardinality(ExecutingWorkers) <= n_gpu * n_workers_per_gpu
          /\ \A w \in DOMAIN wpc : Executing(w) <=> wtask[w] # NoTask
          /\ \A w1, w2 \in ExecutingWorkers :
               w1 # w2 =>
                 /\ Claimed(w1) # Claimed(w2)
                 /\ wtask[w1] # wtask[w2])
  /\ [](debug_mode => ExecutingWorkers = {})
  /\ [][\A w \in DOMAIN wpc :
          wtask'[w] # wtask[w] =>
            \/ wtask[w] = NoTask /\ ~Executing(w) /\ wtask'[w] = Head(inqueue)
            \/ wtask'[w] = NoTask /\ wpc[w] = "put"]_vars

C18_Witness ==
  /\ ~debug_mode
  /\ n_gpu * n_workers_per_gpu = 2
  /\ Cardinality(ExecutingWorkers) = 2
  /\ \A w \in ExecutingWorkers : wpc[w] = "run"
  /\ Len(gens) = 2
  /\ gens[1].pos + gens[2].pos = 3

\* C19: with return_generator, __call__ only makes the generator: the step
\* touches no task, queue or worker; a generator never asked for an item has
\* taken no task from its sequence, submitted none and run none, up to the
\* disposal of the instance.  An async generator submits tasks only inside
\* the first request, and has submitted them all when that request returns;
\* a debug generator runs tasks 1..k in the first k requests, one per
\* request.
C19_LazyStartsOnDemand ==
  /\ [](return_generator =>
          \A c \in Calls :
            /\ gens[c].asked = 0 =>
                 /\ gens[c] = NewGen(gens[c].n)
                 /\ \A i \in 1..MaxTasks :
                      InPool(<<c, i>>) = 0 /\ published[<<c, i>>] = 0
            /\ ~debug_mode /\ gens[c].asked >= 1 /\ ~(main_pc = "next" /\ cur = c) =>
                 gens[c].pos = gens[c].n /\ gens[c].n_tasks = gens[c].n
            /\ debug_mode =>
                 /\ gens[c].pos <= gens[c].asked
                 /\ gens[c].ran = [k \in 1..gens[c].pos |-> k]
                 /\ ~(main_pc = "next" /\ cur = c) /\ gens[c].pc \in {"active", "raised"} =>
                      gens[c].pos = gens[c].asked)
  /\ [][return_generator /\ Len(gens') # Len(gens) =>
          /\ gens' = Append(gens, NewGen(gens'[Len(gens')].n))
          /\ main_pc = "idle" /\ main_pc' = "idle"
          /\ UNCHANGED <<wvars, inqueue, result_queue, published, exec_log>>]_vars
  /\ [][return_generator =>
          \A c \in Calls :
            gens'[c].pos # gens[c].pos =>
              /\ main_pc = "next" /\ cur = c
              /\ ~debug_mode => gens[c].asked = 1
              /\ debug_mode => gens'[c].pos = gens[c].asked]_vars

C19_Witness ==
  /\ ~debug_mode /\ return_generator
  /\ main_pc = "idle"
  /\ Len(gens) = 2
  /\ gens[1].n = 2 /\ gens[1].asked = 1 /\ gens[1].pos = 2 /\ gens[1].got = 1
  /\ gens[2].n = 1 /\ gens[2].asked = 0
  /\ Running(<<1, 2>>) # {}

====
